---- MODULE Spec2Model ----
(***************************************************************************)
(* COLO checkpointing (qemu-colo, migration/colo.c and                     *)
(* migration/colo-failover.c): the Primary checkpoint thread, the          *)
(* Secondary incoming-checkpoint thread, the failover bottom half run by   *)
(* each side's main thread, and the two byte streams between the sides.    *)
(*                                                                         *)
(* Every variable indexed by a side holds that process's copy of the       *)
(* global of the same name.  One action is one statement (or one locked    *)
(* region) of the source; its inputs (channel errors, collaborator return  *)
(* values, management commands) are drawn with \E.                         *)
(***************************************************************************)
EXTENDS Integers, Sequences, FiniteSets, TLC

\* ------------------------------------------------------------------ bounds
MaxRounds == 2      \* checkpoint rounds the Primary may start
MaxRequests == 2    \* failover requests the management may add, both sides together
MaxLen == 2         \* longest VM-state payload, in bytes

\* ------------------------------------------------------------- sync tokens
COLO_READY == 70
COLO_CHECKPOINT_NEW == 71
COLO_CHECKPOINT_SUSPENDED == 72
COLO_CHECKPOINT_SEND == 73
COLO_CHECKPOINT_RECEIVED == 74
COLO_CHECKPOINT_LOADED == 75
COLO_GUEST_SHUTDOWN == 76

\* ---------------------------------------------------------------- pacing
CHECKPOINT_MIN_PERIOD == 100      \* ms
CHECKPOINT_MAX_PEROID == 10000    \* ms

Tokens == COLO_READY .. COLO_GUEST_SHUTDOWN

P == "P"
S == "S"
Side == {P, S}
Peer(s) == IF s = P THEN S ELSE P

VARIABLES
    pc,                      \* [Side -> label]: position of the checkpoint worker
    proc,                    \* [Side -> "alive" | "exited" | "crashed" | "rogue"]
    lock,                    \* [Side -> "free" | "worker" | "main"]: iothread lock
    mpc,                     \* [Side -> label]: main thread inside the failover bh
    runstate,                \* [Side -> "PAUSED" | "RUNNING" | "COLO"]
    state,                   \* MigrationState.state of the Primary
    failover_request,        \* [Side -> BOOLEAN]
    failover_completed,      \* [Side -> BOOLEAN]
    failover_bh,             \* [Side -> 0 (NULL) or the id of a bottom half]
    bhs,                     \* [Side -> set of scheduled bottom-half ids]
    vmstate_loading,         \* Secondary
    colo_shutdown_requested, \* Primary
    colo_buffer,             \* [Side -> [st: "null" | "live" | "freed", data: Seq]]
    ctl,                     \* [Side -> "null" | "open" | "closed"]: colo_control / ctl
    view,                    \* [Side -> "null" | "open" | "closed"]: trans / fb
    proxy,                   \* [Side -> "none" | "up" | "destroyed"]
    ramcache,                \* Secondary RAM cache: "none" | "up" | "released"
    chan,                    \* [Side -> Seq]: what the side wrote and the peer has not read
    ret,                     \* ret of colo_do_checkpoint_transaction
    total_size,              \* Secondary
    wire,                    \* history: tokens put on the wire, in global order
    got,                     \* history: [Side -> Seq]: tokens each side received
    loaded,                  \* history: the payload last fed to the Secondary's loader
    h,                       \* history: counters of observable events
    now,                     \* qemu_clock_get_ms(QEMU_CLOCK_HOST), in ms
    checkpoint_time,         \* colo_thread: end of the last transaction
    colo_checkpoint_period,  \* the force-checkpoint period, in ms
    pace                     \* history: when the last CHECKPOINT_NEWs were sent

vars == <<pc, proc, lock, mpc, runstate, state, failover_request,
          failover_completed, failover_bh, bhs, vmstate_loading,
          colo_shutdown_requested, colo_buffer, ctl, view, proxy, ramcache,
          chan, ret, total_size, wire, got, loaded, h, now, checkpoint_time,
          colo_checkpoint_period, pace>>

foVars == <<failover_request, failover_completed, failover_bh, bhs>>
vmVars == <<runstate, state, vmstate_loading, colo_shutdown_requested>>
resVars == <<colo_buffer, ctl, view, proxy, ramcache>>
ioVars == <<chan, wire, got, total_size, loaded>>
timeVars == <<now, checkpoint_time, colo_checkpoint_period, pace>>

\* ----------------------------------------------------------------- helpers
U64(n) == [k |-> "u64", v |-> n]
Byte(b) == [k |-> "byte", v |-> b]

RECURSIVE Count(_, _)
Count(t, q) == IF q = <<>> THEN 0
               ELSE (IF Head(q) = t THEN 1 ELSE 0) + Count(t, Tail(q))

RECURSIVE Bytes(_)
Bytes(q) == IF q = <<>> THEN <<>> ELSE <<Byte(Head(q))>> \o Bytes(Tail(q))

RECURSIVE Take(_, _)
Take(q, n) == IF n = 0 \/ q = <<>> THEN <<>> ELSE <<Head(q)>> \o Take(Tail(q), n - 1)

RECURSIVE Drop(_, _)
Drop(q, n) == IF n = 0 \/ q = <<>> THEN q ELSE Drop(Tail(q), n - 1)


\* The peer's end of the socket is gone: its process ended, or it closed
\* its half-file (both half-files of a side wrap the same descriptor).
Gone(s) == proc[s] # "alive" \/ ctl[s] = "closed"

\* No CHECKPOINT_NEW sent yet: prev and last are the times of the last two
\* sends, idle the time from the end of the transaction before to the last
\* send, div whether colo_proxy_compare asked for it, set whether the period
\* was changed while the loop waited, period the period the loop compared
\* with; wdiv and wset are div and set of the wait that is going on.
NoPace == [prev |-> -1, last |-> -1, idle |-> 0, div |-> FALSE, set |-> FALSE,
           period |-> 0, wdiv |-> FALSE, wset |-> FALSE]

Init ==
    /\ pc = [s \in Side |-> "start"]
    /\ proc = [s \in Side |-> "alive"]
    /\ lock = [s \in Side |-> "free"]
    /\ mpc = [s \in Side |-> "idle"]
    /\ runstate = [s \in Side |-> "PAUSED"]
    /\ state = "ACTIVE"
    /\ failover_request = [s \in Side |-> FALSE]
    /\ failover_completed = [s \in Side |-> FALSE]
    /\ failover_bh = [s \in Side |-> 0]
    /\ bhs = [s \in Side |-> {}]
    /\ vmstate_loading = FALSE
    /\ colo_shutdown_requested = FALSE
    /\ colo_buffer = [s \in Side |-> [st |-> "null", data |-> <<>>]]
    /\ ctl = [s \in Side |-> "null"]
    /\ view = [s \in Side |-> "null"]
    /\ proxy = [s \in Side |-> "none"]
    /\ ramcache = "none"
    /\ chan = [s \in Side |-> <<>>]
    /\ ret = 0
    /\ total_size = 0
    /\ wire = <<>>
    /\ got = [s \in Side |-> <<>>]
    /\ loaded = <<>>
    /\ now = 0
    /\ checkpoint_time = 0
    /\ colo_checkpoint_period = CHECKPOINT_MAX_PEROID
    /\ pace = NoPace
    /\ h = [sched |-> [s \in Side |-> 0], exec |-> [s \in Side |-> 0],
            edge |-> [s \in Side |-> 0], resume |-> [s \in Side |-> 0],
            free |-> [s \in Side |-> 0], close |-> [s \in Side |-> 0],
            core |-> [s \in Side |-> 0], recv |-> [s \in Side |-> 0]]

\* -------------------------------------------------- control-channel codec
\* Worker step of side s from label `from` to label `to`.
Step(s, from, to) ==
    /\ proc[s] = "alive"
    /\ pc[s] = from
    /\ pc' = [pc EXCEPT ![s] = to]

\* colo_ctl_put: write one big-endian word and flush; the file's error is
\* the result.  A failed put leaves nothing on the wire.
colo_ctl_put(s, v, ok) ==
    chan' = [chan EXCEPT ![s] = IF ok THEN Append(@, U64(v)) ELSE @]

\* The token reaches the wire only when the put succeeds.
PutToken(s, tok, ok) ==
    /\ colo_ctl_put(s, tok, ok)
    /\ wire' = IF ok THEN Append(wire, tok) ELSE wire

\* colo_ctl_get_value: outcome o is "ok" (a word is there), "eof" (nothing
\* left and the peer's end is gone) or "err" (any other channel error).
Readable(s) ==
    /\ chan[Peer(s)] # <<>>
    /\ Head(chan[Peer(s)]).k = "u64"

colo_ctl_get_value(s, o) ==
    /\ o \in {"ok", "eof", "err"}
    /\ o = "ok" => Readable(s)
    /\ o = "eof" => chan[Peer(s)] = <<>> /\ Gone(Peer(s))
    /\ chan' = [chan EXCEPT ![Peer(s)] = IF o = "ok" THEN Tail(@) ELSE @]

Value(s) == Head(chan[Peer(s)]).v

\* colo_ctl_get: a value other than the required one ends the process
\* (exit(1)); an error is returned to the caller.
colo_ctl_get(s, require, o, from, okpc, errpc) ==
    /\ proc[s] = "alive"
    /\ pc[s] = from
    /\ colo_ctl_get_value(s, o)
    /\ got' = [got EXCEPT ![s] = IF o = "ok" THEN Append(@, Value(s)) ELSE @]
    /\ IF o = "ok" /\ Value(s) # require
       THEN /\ proc' = [proc EXCEPT ![s] = "exited"]
            /\ UNCHANGED pc
       ELSE /\ pc' = [pc EXCEPT ![s] = IF o = "ok" THEN okpc ELSE errpc]
            /\ UNCHANGED proc

\* ------------------------------------------------------- failover arbiter
failover_request_is_set(s) == failover_request[s]

failover_request_clear(s) ==
    failover_request' = [failover_request EXCEPT ![s] = FALSE]

\* failover_request_set: latch the flag, create a new bottom half, remember
\* it in failover_bh and schedule it.  hh is the history record to extend.
failover_request_set(s, hh) ==
    /\ failover_request' = [failover_request EXCEPT ![s] = TRUE]
    /\ failover_bh' = [failover_bh EXCEPT ![s] = hh.sched[s] + 1]
    /\ bhs' = [bhs EXCEPT ![s] = @ \cup {hh.sched[s] + 1}]
    /\ h' = [hh EXCEPT !.sched[s] = @ + 1]

\* The main thread is free to run a command or a bottom half: it holds the
\* iothread lock while it does.
MainReady(s) ==
    /\ proc[s] = "alive"
    /\ mpc[s] = "idle"
    /\ lock[s] = "free"

\* The worker of side s is in its checkpoint loop (a transaction included).
LoopRunning(s) ==
    /\ proc[s] = "alive"
    /\ pc[s] \in IF s = P
                 THEN {"loop", "put_new", "get_susp", "bufopen", "stop_vm",
                       "tx_chk2", "save", "put_send", "get_recv", "get_loaded",
                       "resume"}
                 ELSE {"wait_cmd", "stop_vm", "proxy_ckpt", "get_send", "get_size",
                       "fill",
                       "put_recv", "load", "put_loaded"}

\* The worker of side s got as far as its loop: the Primary has created its
\* buffer and not yet released it, the Secondary has sent READY.
LoopEntered(s) ==
    IF s = P THEN colo_buffer[P].st # "null"
    ELSE \E i \in 1 .. Len(wire) : wire[i] = COLO_READY

\* The worker of side s has left its loop and is on its way out.
LoopLeaving(s) ==
    /\ proc[s] = "alive"
    /\ pc[s] \in {"out", "recheck", "wait_completed", "release"}
    /\ LoopEntered(s)

\* qmp_colo_lost_heartbeat, from the moment the side's checkpoint loop runs
\* until its worker has returned.  h.recv notes a request that finds the
\* Primary's transaction between SEND sent and RECEIVED received.
qmp_colo_lost_heartbeat(s) ==
    /\ MainReady(s)
    /\ LoopRunning(s) \/ LoopLeaving(s)
    /\ h.sched[P] + h.sched[S] < MaxRequests
    /\ failover_request_set(s, [h EXCEPT !.recv[s] =
                                   IF pc[s] = "get_recv" THEN 1 ELSE @])
    /\ UNCHANGED <<timeVars, pc, proc, lock, mpc, failover_completed, vmVars, resVars,
                   ioVars, ret>>

colo_runstate_is_stopped(s) == runstate[s] = "COLO" \/ runstate[s] # "RUNNING"

vm_stop_force_state(s) == runstate' = [runstate EXCEPT ![s] = "COLO"]

vm_start(s) == runstate' = [runstate EXCEPT ![s] = "RUNNING"]

migrate_set_state(old, new) == state' = IF state = old THEN new ELSE state

\* colo_do_failover, up to the call of the role's action: make sure the VM
\* is stopped.  The main thread keeps the iothread lock until the action ends.
colo_do_failover(s) ==
    /\ runstate' = [runstate EXCEPT
                      ![s] = IF colo_runstate_is_stopped(s) THEN @ ELSE "COLO"]
    /\ lock' = [lock EXCEPT ![s] = "main"]
    /\ mpc' = [mpc EXCEPT ![s] = "role"]

\* The failover work the bottom half is to do: the role's failover action.
DoFailoverWork(s) == colo_do_failover(s)

\* colo_failover_bh, run for scheduled bottom half b: delete the bottom half
\* failover_bh points to, clear the pointer, do the failover work.  With
\* failover_bh already NULL qemu_bh_delete(NULL) is undefined: the process
\* dies (crash = TRUE) or goes on.
colo_failover_bh(s, b, crash) ==
    /\ MainReady(s)
    /\ b \in bhs[s]
    /\ crash => failover_bh[s] = 0
    /\ bhs' = [bhs EXCEPT ![s] = (@ \ {b}) \ {failover_bh[s]}]
    /\ failover_bh' = [failover_bh EXCEPT ![s] = 0]
    /\ IF crash
       THEN /\ proc' = [proc EXCEPT ![s] = "crashed"]
            /\ UNCHANGED <<runstate, lock, mpc, h>>
       ELSE /\ DoFailoverWork(s)
            /\ h' = [h EXCEPT !.exec[s] = @ + 1]
            /\ UNCHANGED proc
    /\ UNCHANGED <<timeVars, pc, failover_request, failover_completed, state,
                   vmstate_loading, colo_shutdown_requested, resVars, ioVars, ret>>

\* colo_do_failover, after the role's action: failover_completed = true;
\* the bottom half ends and the main thread lets the iothread lock go.
Completed(s, hh) ==
    /\ failover_completed' = [failover_completed EXCEPT ![s] = TRUE]
    /\ h' = [hh EXCEPT !.edge[s] = IF failover_completed[s] THEN @ ELSE @ + 1]
    /\ lock' = [lock EXCEPT ![s] = "free"]
    /\ mpc' = [mpc EXCEPT ![s] = "idle"]

\* The halted incoming-migration coroutine, re-entered: it brings the VM live.
migration_incoming_resume == runstate' = [runstate EXCEPT ![S] = "RUNNING"]

\* slave_do_failover: wait until no VM state is being loaded, fail the proxy
\* over and destroy it, enter the incoming coroutine.
slave_do_failover ==
    /\ proc[S] = "alive"
    /\ mpc[S] = "role"
    /\ ~vmstate_loading
    /\ proxy' = [proxy EXCEPT ![S] = "destroyed"]
    /\ migration_incoming_resume
    /\ Completed(S, [h EXCEPT !.resume[S] = @ + 1])
    /\ UNCHANGED <<timeVars, pc, proc, state, failover_request, failover_bh, bhs,
                   vmstate_loading, colo_shutdown_requested, colo_buffer, ctl,
                   view, ramcache, ioVars, ret>>

\* A Primary failover action that assigns the status COMPLETED, whatever it
\* was.
master_do_failover_assign ==
    /\ proc[P] = "alive"
    /\ mpc[P] = "role"
    /\ proxy' = [proxy EXCEPT ![P] = "destroyed"]
    /\ state' = "COMPLETED"
    /\ vm_start(P)
    /\ Completed(P, h)
    /\ UNCHANGED <<timeVars, pc, proc, failover_request, failover_bh, bhs,
                   vmstate_loading, colo_shutdown_requested, colo_buffer, ctl,
                   view, ramcache, ioVars, ret>>

\* master_do_failover: stop if not stopped, destroy the proxy, move the
\* status COLO -> COMPLETED unless it is FAILED, start the VM.
master_do_failover ==
    /\ proc[P] = "alive"
    /\ mpc[P] = "role"
    /\ proxy' = [proxy EXCEPT ![P] = "destroyed"]
    /\ IF state # "FAILED"
       THEN migrate_set_state("COLO", "COMPLETED")
       ELSE UNCHANGED state
    /\ vm_start(P)
    /\ Completed(P, h)
    /\ UNCHANGED <<timeVars, pc, proc, failover_request, failover_bh, bhs,
                   vmstate_loading, colo_shutdown_requested, colo_buffer, ctl,
                   view, ramcache, ioVars, ret>>

\* The migration status set to FAILED from outside the checkpoint code.
set_state_failed ==
    /\ MainReady(P)
    /\ state = "COLO"
    /\ state' = "FAILED"
    /\ UNCHANGED <<timeVars, pc, proc, lock, mpc, runstate, foVars, vmstate_loading,
                   colo_shutdown_requested, resVars, ioVars, ret, h>>

\* The guest asks to shut down while the Primary replicates: the latch is set.
guest_shutdown_request ==
    /\ MainReady(P)
    /\ state = "COLO"
    /\ runstate[P] = "RUNNING"
    /\ ~colo_shutdown_requested
    /\ h.core[P] = 0
    /\ colo_shutdown_requested' = TRUE
    /\ UNCHANGED <<timeVars, pc, proc, lock, mpc, runstate, state, foVars,
                   vmstate_loading, resVars, ioVars, ret, h>>

\* ------------------------------------------------ iothread lock (worker)
\* A region qemu_mutex_lock_iothread() ... qemu_mutex_unlock_iothread() of
\* the worker with nothing blocking inside is one step, taken while the
\* lock is free.
Locked(s) == lock[s] = "free"

\* A worker step that only moves the program counter.
Jump(s, from, to) ==
    /\ Step(s, from, to)
    /\ UNCHANGED <<timeVars, proc, lock, mpc, foVars, vmVars, resVars, ioVars, ret, h>>

\* ------------------------------------------------------ Primary: start-up
\* colo_start_checkpointer (bottom half of the main thread): status
\* ACTIVE -> COLO, then the checkpoint thread is created.
colo_start_checkpointer ==
    /\ MainReady(P)
    /\ Step(P, "start", "init")
    /\ migrate_set_state("ACTIVE", "COLO")
    /\ UNCHANGED <<timeVars, proc, lock, mpc, runstate, foVars, vmstate_loading,
                   colo_shutdown_requested, resVars, ioVars, ret, h>>

\* colo_thread: colo_proxy_init(COLO_PRIMARY_MODE);
\* colo_control = qemu_fopen_socket(...); qdev_hotplug = 0;
\* fail names the call that fails, if any.
p_init(fail) ==
    /\ fail \in {"none", "proxy", "ctl"}
    /\ Step(P, "init", IF fail = "none" THEN "get_ready" ELSE "out")
    /\ proxy' = [proxy EXCEPT ![P] = IF fail = "proxy" THEN @ ELSE "up"]
    /\ ctl' = [ctl EXCEPT ![P] = IF fail = "none" THEN "open" ELSE @]
    /\ UNCHANGED <<timeVars, proc, lock, mpc, foVars, vmVars, colo_buffer, view,
                   ramcache, ioVars, ret, h>>

\* A colo_thread that goes on to its loop whether READY came or not.
p_get_ready_skip(o) ==
    /\ colo_ctl_get(P, COLO_READY, o, "get_ready", "alloc_buf", "alloc_buf")
    /\ UNCHANGED <<timeVars, lock, mpc, foVars, vmVars, resVars, wire,
                   total_size, loaded, ret, h>>

\* ret = colo_ctl_get(colo_control, COLO_READY)
p_get_ready(o) ==
    /\ colo_ctl_get(P, COLO_READY, o, "get_ready", "alloc_buf", "out")
    /\ UNCHANGED <<timeVars, lock, mpc, foVars, vmVars, resVars, wire, total_size,
                   loaded, ret, h>>

\* A colo_thread that enters its loop without starting the VM.
p_alloc_buf_nostart(ok) ==
    /\ Step(P, "alloc_buf", IF ok THEN "loop" ELSE "out")
    /\ colo_buffer' = [colo_buffer EXCEPT ![P].st = IF ok THEN "live" ELSE @]
    /\ UNCHANGED <<timeVars, proc, lock, mpc, foVars, vmVars, ctl, view, proxy,
                   ramcache, ioVars, ret, h>>

\* colo_buffer = qsb_create(NULL, COLO_BUFFER_BASE_SIZE);
\* qemu_mutex_lock_iothread(); vm_start(); qemu_mutex_unlock_iothread();
p_alloc_buf(ok) ==
    /\ Step(P, "alloc_buf", IF ok THEN "loop" ELSE "out")
    /\ ok => Locked(P)
    /\ colo_buffer' = [colo_buffer EXCEPT ![P].st = IF ok THEN "live" ELSE @]
    /\ IF ok THEN vm_start(P) ELSE UNCHANGED runstate
    /\ UNCHANGED <<timeVars, proc, lock, mpc, foVars, state, vmstate_loading,
                   colo_shutdown_requested, ctl, view, proxy, ramcache,
                   ioVars, ret, h>>

\* ---------------------------------------------------- Primary: the loop
Rounds == Count(COLO_CHECKPOINT_NEW, wire)

\* while (s->state == MIGRATION_STATUS_COLO) {
\*   if (failover_request_is_set()) goto out;
\*   proxy_checkpoint_req = colo_proxy_compare(); ...
\* colo_proxy_compare() returns r; elapsed says whether the checkpoint
\* period has passed since checkpoint_time.  A negative r leaves the loop,
\* a positive r or an elapsed period starts a checkpoint (after the pacing
\* sleep), otherwise the thread sleeps 100 ms and goes round again.
p_loop(r, elapsed) ==
    /\ (state = "COLO" /\ ~failover_request_is_set(P)
          /\ (r > 0 \/ (r = 0 /\ elapsed))) => Rounds < MaxRounds
    /\ Jump(P, "loop",
            IF state # "COLO" \/ failover_request_is_set(P) \/ r < 0 THEN "out"
            ELSE IF r > 0 \/ elapsed THEN "put_new" ELSE "loop")

\* --------------------------- Primary: colo_do_checkpoint_transaction
Ret(ok) == IF ok THEN 0 ELSE -1

\* The transaction's exit: out: if (trans) qemu_fclose(trans); return ret;
\* and the caller's  if (colo_do_checkpoint_transaction(...)) goto out;
\* With r the value of ret, the loop goes on when r is 0.
TxOut(r) == IF r # 0 THEN "out" ELSE "loop"
CloseView(s) == view' = [view EXCEPT ![s] = IF @ = "open" THEN "closed" ELSE @]

\* ret = colo_ctl_put(s->file, COLO_CHECKPOINT_NEW)
p_put_new(ok) ==
    /\ Step(P, "put_new", IF ok THEN "get_susp" ELSE TxOut(Ret(ok)))
    /\ PutToken(P, COLO_CHECKPOINT_NEW, ok)
    /\ ret' = Ret(ok)
    /\ UNCHANGED <<timeVars, proc, lock, mpc, foVars, vmVars, resVars, got, total_size,
                   loaded, h>>

\* A get of the transaction: ret = colo_ctl_get(control, require)
TxGet(require, o, from, to) ==
    /\ colo_ctl_get(P, require, o, from, to, TxOut(Ret(FALSE)))
    /\ ret' = Ret(o = "ok")
    /\ IF o = "ok" THEN UNCHANGED view ELSE CloseView(P)
    /\ UNCHANGED <<timeVars, lock, mpc, foVars, vmVars, colo_buffer, ctl, proxy,
                   ramcache, wire, total_size, loaded, h>>

\* ret = colo_ctl_get(control, COLO_CHECKPOINT_SUSPENDED)
p_get_susp(o) == TxGet(COLO_CHECKPOINT_SUSPENDED, o, "get_susp", "bufopen")

\* A transaction that opens the write view without setting the buffer's
\* length back to 0: the serializer appends to the round before.
p_bufopen_keep(ok) ==
    /\ Step(P, "bufopen",
            IF ~ok THEN TxOut(ret)
            ELSE IF failover_request_is_set(P) THEN TxOut(-1) ELSE "stop_vm")
    /\ view' = [view EXCEPT ![P] = IF ~ok THEN "null"
                                   ELSE IF failover_request_is_set(P) THEN "closed"
                                   ELSE "open"]
    /\ ret' = IF ok /\ failover_request_is_set(P) THEN -1 ELSE ret
    /\ UNCHANGED <<timeVars, proc, lock, mpc, foVars, vmVars, colo_buffer, ctl, proxy,
                   ramcache, ioVars, h>>

\* qsb_set_length(colo_buffer, 0); trans = qemu_bufopen("w", colo_buffer);
\* if (!trans) goto out;   -- ret still holds the 0 of the get before
\* if (failover_request_is_set()) { ret = -1; goto out; }
p_bufopen(ok) ==
    /\ Step(P, "bufopen",
            IF ~ok THEN TxOut(ret)
            ELSE IF failover_request_is_set(P) THEN TxOut(-1) ELSE "stop_vm")
    /\ colo_buffer' = [colo_buffer EXCEPT ![P].data = <<>>]
    /\ view' = [view EXCEPT ![P] = IF ~ok THEN "null"
                                   ELSE IF failover_request_is_set(P) THEN "closed"
                                   ELSE "open"]
    /\ ret' = IF ok /\ failover_request_is_set(P) THEN -1 ELSE ret
    /\ UNCHANGED <<timeVars, proc, lock, mpc, foVars, vmVars, ctl, proxy, ramcache,
                   ioVars, h>>

\* A transaction that goes on to serialize without stopping the VM.
p_stop_vm_skip ==
    /\ Locked(P)
    /\ Jump(P, "stop_vm", "tx_chk2")

\* qemu_mutex_lock_iothread(); vm_stop_force_state(RUN_STATE_COLO);
\* qemu_mutex_unlock_iothread();
p_stop_vm ==
    /\ Step(P, "stop_vm", "tx_chk2")
    /\ Locked(P)
    /\ vm_stop_force_state(P)
    /\ UNCHANGED <<timeVars, proc, lock, mpc, foVars, state, vmstate_loading,
                   colo_shutdown_requested, resVars, ioVars, ret, h>>

\* A transaction that does not test the failover flag again after the stop.
p_tx_chk2_skip == Jump(P, "tx_chk2", "save")

\* if (failover_request_is_set()) { ret = -1; goto out; }
p_tx_chk2 ==
    /\ Step(P, "tx_chk2", IF failover_request_is_set(P) THEN TxOut(-1) ELSE "save")
    /\ ret' = IF failover_request_is_set(P) THEN -1 ELSE ret
    /\ IF failover_request_is_set(P) THEN CloseView(P) ELSE UNCHANGED view
    /\ UNCHANGED <<timeVars, proc, lock, mpc, foVars, vmVars, colo_buffer, ctl, proxy,
                   ramcache, ioVars, h>>

\* What the serializer may write: qemu_savevm_state_begin a run of section
\* bytes, qemu_savevm_state_complete the closing byte.
RECURSIVE Run(_)
Run(n) == IF n = 0 THEN <<>> ELSE <<1>> \o Run(n - 1)
BeginData == {Run(n) : n \in 0 .. MaxLen - 1}
CompleteData == {<<2>>}

\* qemu_savevm_state_begin(trans, &s->params); qemu_mutex_lock_iothread();
\* qemu_savevm_state_complete(trans); qemu_mutex_unlock_iothread();
\* qemu_fflush(trans); ret = colo_proxy_checkpoint();
p_save(b, c, ok) ==
    /\ b \in BeginData /\ c \in CompleteData
    /\ Step(P, "save", IF ok THEN "put_send" ELSE TxOut(Ret(ok)))
    /\ Locked(P)
    /\ colo_buffer' = [colo_buffer EXCEPT ![P].data = @ \o b \o c]
    /\ ret' = Ret(ok)
    /\ IF ok THEN UNCHANGED view ELSE CloseView(P)
    /\ UNCHANGED <<timeVars, proc, lock, mpc, foVars, vmVars, ctl, proxy, ramcache,
                   ioVars, h>>

\* ret = colo_ctl_put(s->file, COLO_CHECKPOINT_SEND);
\* size = qsb_get_length(colo_buffer); ret = colo_ctl_put(s->file, size);
\* qsb_put_buffer(s->file, colo_buffer, size); qemu_fflush(s->file);
\* ret = qemu_file_get_error(s->file);
\* n is the number of the three writes that succeed before one fails.
p_put_send(n) ==
    /\ n \in 0 .. 3
    /\ Step(P, "put_send", IF n = 3 THEN "get_recv" ELSE TxOut(Ret(FALSE)))
    /\ chan' = [chan EXCEPT ![P] =
                  @ \o (IF n >= 1 THEN <<U64(COLO_CHECKPOINT_SEND)>> ELSE <<>>)
                    \o (IF n >= 2 THEN <<U64(Len(colo_buffer[P].data))>> ELSE <<>>)
                    \o (IF n >= 3 THEN Bytes(colo_buffer[P].data) ELSE <<>>)]
    /\ wire' = IF n >= 1 THEN Append(wire, COLO_CHECKPOINT_SEND) ELSE wire
    /\ ret' = Ret(n = 3)
    /\ IF n = 3 THEN UNCHANGED view ELSE CloseView(P)
    /\ UNCHANGED <<timeVars, proc, lock, mpc, foVars, vmVars, colo_buffer, ctl, proxy,
                   ramcache, got, total_size, loaded, h>>

\* ret = colo_ctl_get(control, COLO_CHECKPOINT_RECEIVED)
p_get_recv(o) == TxGet(COLO_CHECKPOINT_RECEIVED, o, "get_recv", "get_loaded")

\* ret = colo_ctl_get(control, COLO_CHECKPOINT_LOADED)
p_get_loaded(o) == TxGet(COLO_CHECKPOINT_LOADED, o, "get_loaded", "resume")

\* if (colo_shutdown_requested) { colo_ctl_put(s->file, COLO_GUEST_SHUTDOWN);
\*   qemu_fflush(s->file); colo_shutdown_requested = 0;
\*   qemu_system_shutdown_request_core(); }
\* ret = 0; qemu_mutex_lock_iothread(); vm_start();
\* qemu_mutex_unlock_iothread();
\* out: qemu_fclose(trans); return ret;   checkpoint_time = now
p_resume(ok) ==
    /\ Step(P, "resume", TxOut(0))
    /\ Locked(P)
    /\ IF colo_shutdown_requested
       THEN /\ PutToken(P, COLO_GUEST_SHUTDOWN, ok)
            /\ h' = [h EXCEPT !.core[P] = @ + 1]
       ELSE /\ ok
            /\ UNCHANGED <<chan, wire, h>>
    /\ colo_shutdown_requested' = FALSE
    /\ ret' = 0
    /\ vm_start(P)
    /\ CloseView(P)
    /\ UNCHANGED <<timeVars, proc, lock, mpc, foVars, state, vmstate_loading,
                   colo_buffer, ctl, proxy, ramcache, got, total_size, loaded>>

\* ------------------------------------------------- Primary: termination
\* out: qemu_mutex_lock_iothread();
\* if (!failover_request_is_set()) failover_request_set();
\* qemu_mutex_unlock_iothread();
p_out ==
    /\ Step(P, "out", "wait_completed")
    /\ Locked(P)
    /\ IF ~failover_request_is_set(P)
       THEN failover_request_set(P, h)
       ELSE UNCHANGED <<failover_request, failover_bh, bhs, h>>
    /\ UNCHANGED <<timeVars, proc, lock, mpc, failover_completed, vmVars, resVars,
                   ioVars, ret>>

\* A Primary loop that clears the request without waiting for the failover
\* action to complete.
p_clear_nowait ==
    /\ Step(P, "wait_completed", "release")
    /\ failover_request_clear(P)
    /\ UNCHANGED <<timeVars, proc, lock, mpc, failover_completed, failover_bh, bhs,
                   vmVars, resVars, ioVars, ret, h>>

\* while (!failover_completed) { ; }
\* failover_request_clear();
p_clear ==
    /\ failover_completed[P]
    /\ Step(P, "wait_completed", "release")
    /\ failover_request_clear(P)
    /\ UNCHANGED <<timeVars, proc, lock, mpc, failover_completed, failover_bh, bhs,
                   vmVars, resVars, ioVars, ret, h>>

\* qsb_free(colo_buffer), the pointer set to NULL afterwards or left as it
\* is: a buffer that is there is freed, a pointer already freed is freed again.
qsb_free(s, null) ==
    colo_buffer' = [colo_buffer EXCEPT
                      ![s].st = IF null \/ @ = "null" THEN "null" ELSE "freed"]

\* qemu_fclose of the control half-file, if it was opened.
CloseCtl(s) == ctl' = [ctl EXCEPT ![s] = IF @ = "null" THEN "null" ELSE "closed"]

\* The releases of a loop's exit, counted.
Released(s) ==
    h' = [h EXCEPT !.free[s] = IF colo_buffer[s].st = "null" THEN @ ELSE @ + 1,
                   !.close[s] = IF ctl[s] = "null" THEN @ ELSE @ + 1]

\* qsb_free(colo_buffer); colo_buffer = NULL;
\* if (colo_control) qemu_fclose(colo_control);
\* qemu_mutex_lock_iothread(); qemu_bh_schedule(s->cleanup_bh);
\* qemu_mutex_unlock_iothread(); qdev_hotplug = dev_hotplug; return NULL;
p_release ==
    /\ Step(P, "release", "done")
    /\ Locked(P)
    /\ qsb_free(P, TRUE)
    /\ CloseCtl(P)
    /\ Released(P)
    /\ UNCHANGED <<timeVars, proc, lock, mpc, foVars, vmVars, view, proxy, ramcache,
                   ioVars, ret>>

\* ------------------------- Secondary: colo_process_incoming_checkpoints
\* qdev_hotplug = 0; colo = qemu_coroutine_self();
\* colo_proxy_init(COLO_SECONDARY_MODE); ctl = qemu_fopen_socket(fd, "wb");
\* create_and_init_ram_cache(); colo_buffer = qsb_create(...);
\* fail names the call that fails, if any.
s_init(fail) ==
    /\ fail \in {"none", "proxy", "ctl", "buf"}
    /\ Step(S, "start", IF fail = "none" THEN "put_ready" ELSE "out")
    /\ proxy' = [proxy EXCEPT ![S] = IF fail = "proxy" THEN @ ELSE "up"]
    /\ ctl' = [ctl EXCEPT ![S] = IF fail \in {"proxy", "ctl"} THEN @ ELSE "open"]
    /\ ramcache' = IF fail \in {"proxy", "ctl"} THEN ramcache ELSE "up"
    /\ colo_buffer' = [colo_buffer EXCEPT ![S].st = IF fail = "none" THEN "live" ELSE @]
    /\ UNCHANGED <<timeVars, proc, lock, mpc, foVars, vmVars, view, ioVars, ret, h>>

\* A Secondary that enters its loop without starting the VM.
s_put_ready_nostart(ok) ==
    /\ Step(S, "put_ready", IF ok THEN "wait_cmd" ELSE "out")
    /\ PutToken(S, COLO_READY, ok)
    /\ UNCHANGED <<timeVars, proc, lock, mpc, foVars, vmVars, resVars, got,
                   total_size, loaded, ret, h>>

\* ret = colo_ctl_put(ctl, COLO_READY);
\* qemu_mutex_lock_iothread(); vm_start(); qemu_mutex_unlock_iothread();
s_put_ready(ok) ==
    /\ Step(S, "put_ready", IF ok THEN "wait_cmd" ELSE "out")
    /\ ok => Locked(S)
    /\ PutToken(S, COLO_READY, ok)
    /\ IF ok THEN vm_start(S) ELSE UNCHANGED runstate
    /\ UNCHANGED <<timeVars, proc, lock, mpc, foVars, state, vmstate_loading,
                   colo_shutdown_requested, resVars, got, total_size, loaded,
                   ret, h>>

\* colo_wait_handle_cmd: COLO_CHECKPOINT_NEW asks for a checkpoint,
\* COLO_GUEST_SHUTDOWN goes to the shutdown request, an error or any other
\* value returns -1 and the loop is left.  Back in the loop, with a
\* checkpoint asked for:  if (failover_request_is_set()) goto out;
colo_wait_handle_cmd(o) ==
    /\ proc[S] = "alive"
    /\ pc[S] = "wait_cmd"
    /\ colo_ctl_get_value(S, o)
    /\ got' = [got EXCEPT ![S] = IF o = "ok" THEN Append(@, Value(S)) ELSE @]
    /\ pc' = [pc EXCEPT ![S] =
                IF o # "ok" THEN "out"
                ELSE IF Value(S) = COLO_CHECKPOINT_NEW
                     THEN (IF failover_request_is_set(S) THEN "out" ELSE "stop_vm")
                ELSE IF Value(S) = COLO_GUEST_SHUTDOWN THEN "shutdown_req"
                ELSE "out"]
    /\ UNCHANGED <<timeVars, proc, lock, mpc, foVars, vmVars, resVars, wire, total_size,
                   loaded, ret, h>>

\* qemu_mutex_lock_iothread(); qemu_system_shutdown_request_core();
\* qemu_mutex_unlock_iothread(); for (;;) { ; }
s_shutdown_req ==
    /\ Step(S, "shutdown_req", "parked")
    /\ Locked(S)
    /\ h' = [h EXCEPT !.core[S] = @ + 1]
    /\ UNCHANGED <<timeVars, proc, lock, mpc, foVars, vmVars, resVars, ioVars, ret>>

\* qemu_mutex_lock_iothread(); vm_stop_force_state(RUN_STATE_COLO);
\* qemu_mutex_unlock_iothread();
\* ret = colo_ctl_put(ctl, COLO_CHECKPOINT_SUSPENDED);
s_stop_vm(ok) ==
    /\ Step(S, "stop_vm", IF ok THEN "proxy_ckpt" ELSE "out")
    /\ Locked(S)
    /\ vm_stop_force_state(S)
    /\ PutToken(S, COLO_CHECKPOINT_SUSPENDED, ok)
    /\ UNCHANGED <<timeVars, proc, lock, mpc, foVars, state, vmstate_loading,
                   colo_shutdown_requested, resVars, got, total_size, loaded,
                   ret, h>>

\* ret = colo_proxy_checkpoint(); if (ret < 0) goto out;
s_proxy_checkpoint(ok) == Jump(S, "proxy_ckpt", IF ok THEN "get_send" ELSE "out")

\* ret = colo_ctl_get(f, COLO_CHECKPOINT_SEND)
s_get_send(o) ==
    /\ colo_ctl_get(S, COLO_CHECKPOINT_SEND, o, "get_send", "get_size", "out")
    /\ UNCHANGED <<timeVars, lock, mpc, foVars, vmVars, resVars, wire, total_size,
                   loaded, ret, h>>

\* ret = colo_ctl_get_value(f, &total_size)
s_get_size(o) ==
    /\ Step(S, "get_size", IF o = "ok" THEN "fill" ELSE "out")
    /\ colo_ctl_get_value(S, o)
    /\ total_size' = IF o = "ok" THEN Value(S) ELSE total_size
    /\ UNCHANGED <<timeVars, proc, lock, mpc, foVars, vmVars, resVars, wire, got,
                   loaded, ret, h>>

\* The next n units of the stream are payload bytes.
HasBytes(q, n) ==
    /\ Len(q) >= n
    /\ \A i \in 1 .. n : q[i].k = "byte"

\* qsb_fill_buffer: the buffer's used length is set back to 0 and the next
\* n bytes of the stream q are stored from position 0.
qsb_fill_buffer(q, n) == [i \in 1 .. n |-> q[i].v]

\* ret = qsb_fill_buffer(colo_buffer, f, total_size): anything short of
\* total_size leaves the loop.
s_fill(ok) ==
    /\ Step(S, "fill", IF ok THEN "put_recv" ELSE "out")
    /\ ok => HasBytes(chan[P], total_size)
    /\ chan' = [chan EXCEPT ![P] = IF ok THEN Drop(@, total_size) ELSE @]
    /\ colo_buffer' = [colo_buffer EXCEPT ![S].data =
                         IF ok THEN qsb_fill_buffer(chan[P], total_size) ELSE @]
    /\ UNCHANGED <<timeVars, proc, lock, mpc, foVars, vmVars, ctl, view, proxy,
                   ramcache, wire, got, total_size, loaded, ret, h>>

\* ret = colo_ctl_put(ctl, COLO_CHECKPOINT_RECEIVED);
\* fb = qemu_bufopen("r", colo_buffer);
\* qemu_mutex_lock_iothread(); qemu_system_reset(VMRESET_SILENT);
\* vmstate_loading = true;
s_put_recv(ok, openok) ==
    /\ ~ok => ~openok
    /\ Step(S, "put_recv", IF openok THEN "load" ELSE "out")
    /\ openok => Locked(S)
    /\ PutToken(S, COLO_CHECKPOINT_RECEIVED, ok)
    /\ view' = [view EXCEPT ![S] = IF openok THEN "open" ELSE @]
    /\ lock' = [lock EXCEPT ![S] = IF openok THEN "worker" ELSE @]
    /\ vmstate_loading' = openok
    /\ UNCHANGED <<timeVars, proc, mpc, foVars, runstate, state, colo_shutdown_requested,
                   colo_buffer, ctl, proxy, ramcache, got, total_size, loaded,
                   ret, h>>

\* A load whose failure path leaves the loop with the iothread lock held.
s_load_keeplock(ok) ==
    /\ Step(S, "load", IF ok THEN "put_loaded" ELSE "out")
    /\ loaded' = colo_buffer[S].data
    /\ vmstate_loading' = FALSE
    /\ lock' = [lock EXCEPT ![S] = IF ok THEN "free" ELSE @]
    /\ UNCHANGED <<timeVars, proc, mpc, foVars, runstate, state,
                   colo_shutdown_requested, resVars, chan, wire, got,
                   total_size, ret, h>>

\* A load whose failure path releases the lock and forgets the flag.
s_load_leak(ok) ==
    /\ Step(S, "load", IF ok THEN "put_loaded" ELSE "out")
    /\ loaded' = colo_buffer[S].data
    /\ vmstate_loading' = ~ok
    /\ lock' = [lock EXCEPT ![S] = "free"]
    /\ UNCHANGED <<timeVars, proc, mpc, foVars, runstate, state,
                   colo_shutdown_requested, resVars, chan, wire, got,
                   total_size, ret, h>>

\* qemu_loadvm_state(fb); vmstate_loading = false;
\* qemu_mutex_unlock_iothread();   -- on failure goto out
s_load(ok) ==
    /\ Step(S, "load", IF ok THEN "put_loaded" ELSE "out")
    /\ loaded' = colo_buffer[S].data
    /\ vmstate_loading' = FALSE
    /\ lock' = [lock EXCEPT ![S] = "free"]
    /\ UNCHANGED <<timeVars, proc, mpc, foVars, runstate, state,
                   colo_shutdown_requested, resVars, chan, wire, got,
                   total_size, ret, h>>

\* A Secondary that sends READY again at the end of every round, ahead of
\* the next one, instead of once per session.
s_put_loaded_ready(ok) ==
    /\ Step(S, "put_loaded", IF ok THEN "wait_cmd" ELSE "out")
    /\ ok => Locked(S)
    /\ chan' = [chan EXCEPT ![S] =
                  IF ok THEN @ \o <<U64(COLO_CHECKPOINT_LOADED), U64(COLO_READY)>>
                  ELSE @]
    /\ wire' = IF ok THEN wire \o <<COLO_CHECKPOINT_LOADED, COLO_READY>> ELSE wire
    /\ IF ok THEN vm_start(S) ELSE UNCHANGED runstate
    /\ view' = [view EXCEPT ![S] = IF ok THEN "null" ELSE @]
    /\ UNCHANGED <<timeVars, proc, lock, mpc, foVars, state, vmstate_loading,
                   colo_shutdown_requested, colo_buffer, ctl, proxy, ramcache,
                   got, total_size, loaded, ret, h>>

\* ret = colo_ctl_put(ctl, COLO_CHECKPOINT_LOADED);
\* qemu_mutex_lock_iothread(); vm_start(); qemu_mutex_unlock_iothread();
\* qemu_fclose(fb); fb = NULL;
s_put_loaded(ok) ==
    /\ Step(S, "put_loaded", IF ok THEN "wait_cmd" ELSE "out")
    /\ ok => Locked(S)
    /\ PutToken(S, COLO_CHECKPOINT_LOADED, ok)
    /\ IF ok THEN vm_start(S) ELSE UNCHANGED runstate
    /\ view' = [view EXCEPT ![S] = IF ok THEN "null" ELSE @]
    /\ UNCHANGED <<timeVars, proc, lock, mpc, foVars, state, vmstate_loading,
                   colo_shutdown_requested, colo_buffer, ctl, proxy, ramcache,
                   got, total_size, loaded, ret, h>>

\* ---------------------------------------------- Secondary: termination
\* out: if (!failover_request_is_set()) usleep(2000 * 1000);
\* With the request already there the second test finds it too.
s_out == Jump(S, "out", IF failover_request_is_set(S) THEN "wait_completed"
                        ELSE "recheck")

\* if (!failover_request_is_set()) { colo_proxy_destroy(COLO_SECONDARY_MODE);
\*   exit(1); } else { while (!failover_completed) ; ... }
s_recheck ==
    /\ proc[S] = "alive"
    /\ pc[S] = "recheck"
    /\ IF failover_request_is_set(S)
       THEN /\ pc' = [pc EXCEPT ![S] = "wait_completed"]
            /\ UNCHANGED <<proc, proxy>>
       ELSE /\ proxy' = [proxy EXCEPT ![S] = "destroyed"]
            /\ proc' = [proc EXCEPT ![S] = "exited"]
            /\ UNCHANGED pc
    /\ UNCHANGED <<timeVars, lock, mpc, foVars, vmVars, colo_buffer, ctl, view,
                   ramcache, ioVars, ret, h>>

\* A Secondary drain that resets the completion flag together with the
\* request.
s_clear_reset ==
    /\ failover_completed[S]
    /\ Step(S, "wait_completed", "release")
    /\ failover_request_clear(S)
    /\ failover_completed' = [failover_completed EXCEPT ![S] = FALSE]
    /\ UNCHANGED <<timeVars, proc, lock, mpc, failover_bh, bhs,
                   vmVars, resVars, ioVars, ret, h>>

\* while (!failover_completed) { ; }
\* failover_request_clear();
s_clear ==
    /\ failover_completed[S]
    /\ Step(S, "wait_completed", "release")
    /\ failover_request_clear(S)
    /\ UNCHANGED <<timeVars, proc, lock, mpc, failover_completed, failover_bh, bhs,
                   vmVars, resVars, ioVars, ret, h>>

\* colo = NULL; if (fb) qemu_fclose(fb); release_ram_cache();
\* if (ctl) qemu_fclose(ctl); qsb_free(colo_buffer); loadvm_exit_colo();
\* qdev_hotplug = dev_hotplug; return NULL;
s_release ==
    /\ Step(S, "release", "done")
    /\ CloseView(S)
    /\ ramcache' = "released"
    /\ CloseCtl(S)
    /\ qsb_free(S, FALSE)
    /\ Released(S)
    /\ UNCHANGED <<timeVars, proc, lock, mpc, foVars, vmVars, proxy, ioVars, ret>>

\* ------------------------------------------------------- specification
PrimaryStep ==
    \/ colo_start_checkpointer
    \/ \E fail \in {"none", "proxy", "ctl"} : p_init(fail)
    \/ \E o \in {"ok", "eof", "err"} : p_get_ready(o)
    \/ \E ok \in BOOLEAN : p_alloc_buf(ok)
    \/ \E r \in {-1, 0, 1}, elapsed \in BOOLEAN : p_loop(r, elapsed)
    \/ \E ok \in BOOLEAN : p_put_new(ok)
    \/ \E o \in {"ok", "eof", "err"} : p_get_susp(o)
    \/ \E ok \in BOOLEAN : p_bufopen(ok)
    \/ p_stop_vm
    \/ p_tx_chk2
    \/ \E b \in BeginData, c \in CompleteData, ok \in BOOLEAN : p_save(b, c, ok)
    \/ \E n \in 0 .. 3 : p_put_send(n)
    \/ \E o \in {"ok", "eof", "err"} : p_get_recv(o)
    \/ \E o \in {"ok", "eof", "err"} : p_get_loaded(o)
    \/ \E ok \in BOOLEAN : p_resume(ok)
    \/ p_out
    \/ p_clear
    \/ p_release

SecondaryStep ==
    \/ \E fail \in {"none", "proxy", "ctl", "buf"} : s_init(fail)
    \/ \E ok \in BOOLEAN : s_put_ready(ok)
    \/ \E o \in {"ok", "eof", "err"} : colo_wait_handle_cmd(o)
    \/ s_shutdown_req
    \/ \E ok \in BOOLEAN : s_stop_vm(ok)
    \/ \E ok \in BOOLEAN : s_proxy_checkpoint(ok)
    \/ \E o \in {"ok", "eof", "err"} : s_get_send(o)
    \/ \E o \in {"ok", "eof", "err"} : s_get_size(o)
    \/ \E ok \in BOOLEAN : s_fill(ok)
    \/ \E ok, openok \in BOOLEAN : s_put_recv(ok, openok)
    \/ \E ok \in BOOLEAN : s_load(ok)
    \/ \E ok \in BOOLEAN : s_put_loaded(ok)
    \/ s_out
    \/ s_recheck
    \/ s_clear
    \/ s_release

MainStep ==
    \/ \E s \in Side : qmp_colo_lost_heartbeat(s)
    \/ \E s \in Side : \E b \in bhs[s], crash \in BOOLEAN : colo_failover_bh(s, b, crash)
    \/ slave_do_failover
    \/ master_do_failover
    \/ set_state_failed
    \/ guest_shutdown_request

Next == PrimaryStep \/ SecondaryStep \/ MainStep

Spec == Init /\ [][Next]_vars

\* ------------------------------------------- a peer that breaks the protocol
\* The token colo_ctl_get requires at the Primary's position in a
\* transaction.
Required ==
    CASE pc[P] = "get_susp" -> COLO_CHECKPOINT_SUSPENDED
      [] pc[P] = "get_recv" -> COLO_CHECKPOINT_RECEIVED
      [] pc[P] = "get_loaded" -> COLO_CHECKPOINT_LOADED
      [] OTHER -> 0

\* The tokens a misbehaving Secondary answers with: one of them is wrong at
\* each of the Primary's receives.
WrongTokens == {COLO_READY, COLO_CHECKPOINT_LOADED}

\* The Primary waits in colo_ctl_get and the Secondary answers with a token
\* other than the required one (for example LOADED in answer to NEW).  A
\* Secondary that does this is not the program of this model any more: from
\* here on it takes no step of colo_process_incoming_checkpoints.
PeerViolation(t) ==
    /\ proc[P] = "alive"
    /\ proc[S] = "alive"
    /\ Required # 0
    /\ t \in WrongTokens \ {Required}
    /\ chan[S] = <<>>
    /\ chan' = [chan EXCEPT ![S] = <<U64(t)>>]
    /\ proc' = [proc EXCEPT ![S] = "rogue"]
    /\ UNCHANGED <<timeVars, pc, lock, mpc, foVars, vmVars, resVars, wire, got,
                   total_size, loaded, ret, h>>

NextViolation == Next \/ \E t \in WrongTokens : PeerViolation(t)

SpecViolation == Init /\ [][NextViolation]_vars

\* ------------------------------------------ the Primary's loop on a clock
\* colo_thread's loop with qemu_clock_get_ms read as `now`, a clock in
\* milliseconds.  A statement takes no time; time passes in g_usleep and in
\* a transaction.  The transaction is the successful one, seen from the
\* loop: CHECKPOINT_NEW is put when it is entered and it returns 0 after d
\* milliseconds.
MaxTime == 400                    \* the clock stops here
PollSleep == 100                  \* g_usleep(100000), in ms
Periods == {0, 50, 100, 250}      \* values given to colo-set-checkpoint-period
TxTimes == {30, 120}              \* how long a transaction may take, in ms
StartDelays == {0, 50, 150}       \* how long the wait for READY may take, in ms

\* The loop is entered: READY received, buffer created, VM started.
\* checkpoint_time was read when the thread began.
InitPacing ==
    /\ pc = [s \in Side |-> IF s = P THEN "loop" ELSE "wait_cmd"]
    /\ proc = [s \in Side |-> "alive"]
    /\ lock = [s \in Side |-> "free"]
    /\ mpc = [s \in Side |-> "idle"]
    /\ runstate = [s \in Side |-> "RUNNING"]
    /\ state = "COLO"
    /\ failover_request = [s \in Side |-> FALSE]
    /\ failover_completed = [s \in Side |-> FALSE]
    /\ failover_bh = [s \in Side |-> 0]
    /\ bhs = [s \in Side |-> {}]
    /\ vmstate_loading = FALSE
    /\ colo_shutdown_requested = FALSE
    /\ colo_buffer = [s \in Side |-> [st |-> "live", data |-> <<>>]]
    /\ ctl = [s \in Side |-> "open"]
    /\ view = [s \in Side |-> "null"]
    /\ proxy = [s \in Side |-> "up"]
    /\ ramcache = "up"
    /\ chan = [s \in Side |-> <<>>]
    /\ ret = 0
    /\ total_size = 0
    /\ wire = <<COLO_READY>>
    /\ got = [s \in Side |-> IF s = P THEN <<COLO_READY>> ELSE <<>>]
    /\ loaded = <<>>
    /\ h = [sched |-> [s \in Side |-> 0], exec |-> [s \in Side |-> 0],
            edge |-> [s \in Side |-> 0], resume |-> [s \in Side |-> 0],
            free |-> [s \in Side |-> 0], close |-> [s \in Side |-> 0],
            core |-> [s \in Side |-> 0], recv |-> [s \in Side |-> 0]]
    /\ checkpoint_time = 0
    /\ now \in StartDelays
    /\ colo_checkpoint_period = CHECKPOINT_MAX_PEROID
    /\ pace = NoPace

\* What the timed actions leave alone.
untimedVars == <<proc, lock, mpc, foVars, vmVars, resVars, got, total_size,
                 loaded, ret, h>>

\* qmp_colo_set_checkpoint_period: the value is stored as it comes.
qmp_colo_set_checkpoint_period(value) ==
    /\ MainReady(P)
    /\ pc[P] \in {"loop", "put_new"}
    /\ value # colo_checkpoint_period
    /\ colo_checkpoint_period' = value
    /\ pace' = [pace EXCEPT !.wset = TRUE]
    /\ UNCHANGED <<pc, chan, wire, now, checkpoint_time, untimedVars>>

\* One pass of the while loop up to do_checkpoint, colo_proxy_compare()
\* returning r:
\*   r < 0: goto out;
\*   r > 0: interval = current_time - checkpoint_time;
\*          if (interval < CHECKPOINT_MIN_PERIOD)
\*              g_usleep(1000 * (CHECKPOINT_MIN_PERIOD - interval));
\*          goto do_checkpoint;
\*   r = 0: if (current_time - checkpoint_time < colo_checkpoint_period)
\*              { g_usleep(100000); continue; }
colo_thread_wait(r) ==
    /\ Step(P, "loop",
            IF r < 0 THEN "out"
            ELSE IF r > 0 THEN "put_new"
            ELSE IF now - checkpoint_time < colo_checkpoint_period THEN "loop"
            ELSE "put_new")
    /\ now' = IF r < 0 THEN now
              ELSE IF r > 0
                   THEN (IF now - checkpoint_time < CHECKPOINT_MIN_PERIOD
                         THEN now + (CHECKPOINT_MIN_PERIOD - (now - checkpoint_time))
                         ELSE now)
              ELSE IF now - checkpoint_time < colo_checkpoint_period
                   THEN now + PollSleep
              ELSE now
    /\ now' <= MaxTime
    /\ pace' = [pace EXCEPT !.wdiv = @ \/ r > 0]
    /\ UNCHANGED <<chan, wire, checkpoint_time, colo_checkpoint_period,
                   untimedVars>>

\* do_checkpoint: colo_do_checkpoint_transaction puts CHECKPOINT_NEW and
\* returns 0 after d ms; checkpoint_time = qemu_clock_get_ms(...).
colo_thread_checkpoint(d) ==
    /\ Step(P, "put_new", "loop")
    /\ Rounds < MaxRounds
    /\ now + d <= MaxTime
    /\ PutToken(P, COLO_CHECKPOINT_NEW, TRUE)
    /\ now' = now + d
    /\ checkpoint_time' = now + d
    /\ pace' = [prev |-> pace.last, last |-> now, idle |-> now - checkpoint_time,
                div |-> pace.wdiv, set |-> pace.wset,
                period |-> colo_checkpoint_period, wdiv |-> FALSE, wset |-> FALSE]
    /\ UNCHANGED <<colo_checkpoint_period, untimedVars>>

NextPacing ==
    \/ \E value \in Periods : qmp_colo_set_checkpoint_period(value)
    \/ \E r \in {-1, 0, 1} : colo_thread_wait(r)
    \/ \E d \in TxTimes : colo_thread_checkpoint(d)

SpecPacing == InitPacing /\ [][NextPacing]_vars

\* ------------------------------------------------- the undisturbed session
\* The two loops with nothing going wrong around them: every put and get
\* succeeds (reliable channels), every collaborator call succeeds, the proxy
\* comparison never reports an error, nobody asks for a failover and nobody
\* changes the migration status.  The guest may ask to shut down.  Both
\* workers are threads the host keeps scheduling: a step of a worker that
\* stays possible is eventually taken.
PrimaryLiveStep ==
    \/ colo_start_checkpointer
    \/ p_init("none")
    \/ p_get_ready("ok")
    \/ p_alloc_buf(TRUE)
    \/ \E r \in {0, 1}, elapsed \in BOOLEAN : p_loop(r, elapsed)
    \/ p_put_new(TRUE)
    \/ p_get_susp("ok")
    \/ p_bufopen(TRUE)
    \/ p_stop_vm
    \/ p_tx_chk2
    \/ \E b \in BeginData, c \in CompleteData : p_save(b, c, TRUE)
    \/ p_put_send(3)
    \/ p_get_recv("ok")
    \/ p_get_loaded("ok")
    \/ p_resume(TRUE)

SecondaryLiveStep ==
    \/ s_init("none")
    \/ s_put_ready(TRUE)
    \/ colo_wait_handle_cmd("ok")
    \/ s_shutdown_req
    \/ s_stop_vm(TRUE)
    \/ s_proxy_checkpoint(TRUE)
    \/ s_get_send("ok")
    \/ s_get_size("ok")
    \/ s_fill(TRUE)
    \/ s_put_recv(TRUE, TRUE)
    \/ s_load(TRUE)
    \/ s_put_loaded(TRUE)

NextLive == PrimaryLiveStep \/ SecondaryLiveStep \/ guest_shutdown_request

SpecLive ==
    /\ Init
    /\ [][NextLive]_vars
    /\ WF_vars(PrimaryLiveStep)
    /\ WF_vars(SecondaryLiveStep)

\* ---------------------------------------------------------------- properties
\* The sync tokens of the checkpoint rounds, in the order they were sent.
IsRoundToken(t) == t \in COLO_CHECKPOINT_NEW .. COLO_CHECKPOINT_LOADED
RoundTokens == SelectSeq(wire, IsRoundToken)

\* C1: the sync tokens are put on the wire in the strict global order NEW,
\* SUSPENDED, SEND, RECEIVED, LOADED, round after round, and the Primary sends
\* the NEW of the next round only after it has received the LOADED of the
\* round before: at most one transaction is in flight.
C1_StrictOrder ==
    /\ \A i \in 1 .. Len(RoundTokens) :
          RoundTokens[i] = COLO_CHECKPOINT_NEW + ((i - 1) % 5)
    /\ Count(COLO_CHECKPOINT_NEW, wire)
          <= Count(COLO_CHECKPOINT_LOADED, got[P]) + 1

\* What each side has sent, in order: the tokens name their sender.
IsPrimaryToken(t) ==
    t \in {COLO_CHECKPOINT_NEW, COLO_CHECKPOINT_SEND, COLO_GUEST_SHUTDOWN}
IsSecondaryToken(t) == t \in Tokens /\ ~IsPrimaryToken(t)
PrimarySent == SelectSeq(wire, IsPrimaryToken)
SecondarySent == SelectSeq(wire, IsSecondaryToken)

\* The rounds the Primary has seen through to CHECKPOINT_LOADED.
RoundsLoaded == Count(COLO_CHECKPOINT_LOADED, got[P])

\* Every round that was started has succeeded and its tail has run.
SuccessfulRounds ==
    /\ RoundsLoaded >= 1
    /\ Count(COLO_CHECKPOINT_NEW, wire) = RoundsLoaded
    /\ pc[P] # "resume"

\* q is (NEW, SEND, [GUEST_SHUTDOWN])*
RECURSIVE PrimaryPattern(_)
PrimaryPattern(q) ==
    \/ q = <<>>
    \/ /\ Len(q) >= 2
       /\ q[1] = COLO_CHECKPOINT_NEW
       /\ q[2] = COLO_CHECKPOINT_SEND
       /\ \/ PrimaryPattern(Drop(q, 2))
          \/ /\ Len(q) >= 3
             /\ q[3] = COLO_GUEST_SHUTDOWN
             /\ PrimaryPattern(Drop(q, 3))

\* q is unit repeated k times
Repeats(unit, k, q) ==
    /\ Len(q) = k * Len(unit)
    /\ \A i \in 1 .. Len(q) : q[i] = unit[((i - 1) % Len(unit)) + 1]

\* C2, as stated: after any number of successful rounds the Primary has sent
\* a non-empty repetition of (NEW, SEND, [GUEST_SHUTDOWN]) and the Secondary
\* a non-empty repetition of (READY, SUSPENDED, RECEIVED, LOADED).
C2_PatternsAsStated ==
    SuccessfulRounds =>
       /\ PrimarySent # <<>> /\ PrimaryPattern(PrimarySent)
       /\ Repeats(<<COLO_READY, COLO_CHECKPOINT_SUSPENDED,
                    COLO_CHECKPOINT_RECEIVED, COLO_CHECKPOINT_LOADED>>,
                  RoundsLoaded, SecondarySent)

\* C2, amended: after k >= 1 successful rounds the Primary has sent a
\* repetition of (NEW, SEND, [GUEST_SHUTDOWN]) with k NEWs, and the Secondary
\* has sent READY once, followed by k times (SUSPENDED, RECEIVED, LOADED).
C2_Patterns ==
    SuccessfulRounds =>
       /\ PrimarySent # <<>> /\ PrimaryPattern(PrimarySent)
       /\ Count(COLO_CHECKPOINT_NEW, PrimarySent) = RoundsLoaded
       /\ SecondarySent # <<>> /\ Head(SecondarySent) = COLO_READY
       /\ Repeats(<<COLO_CHECKPOINT_SUSPENDED, COLO_CHECKPOINT_RECEIVED,
                    COLO_CHECKPOINT_LOADED>>,
                  RoundsLoaded, Tail(SecondarySent))

\* Two successful rounds, the second one closed by GUEST_SHUTDOWN.
C2_Witness ==
    /\ SuccessfulRounds
    /\ RoundsLoaded = 2
    /\ PrimarySent[Len(PrimarySent)] = COLO_GUEST_SHUTDOWN

\* C3: once failover has been requested on a side whose loop is running,
\* that side drains: its
\* process does not end before the loop has terminated with failover
\* completed, and the checkpoint buffer and the control channel are never
\* released twice.
C3_Drain ==
    \A s \in Side :
       /\ (LoopEntered(s) /\ h.sched[s] >= 1 /\ proc[s] # "alive") =>
             (pc[s] = "done" /\ failover_completed[s])
       /\ h.free[s] <= 1
       /\ h.close[s] <= 1

\* C4: failover_request is idempotent: however many times it is called on a
\* side, at most one deferred failover action is pending or has been
\* executed there, and failover_completed rises at most once.
C4_Idempotent ==
    \A s \in Side :
       /\ Cardinality(bhs[s]) + h.exec[s] <= 1
       /\ h.edge[s] <= 1

\* The loop of side s clears the request, frees its buffer or closes its
\* control channel in this step.
Cleans(s) ==
    \/ failover_request[s] /\ ~failover_request'[s]
    \/ colo_buffer[s].st = "live" /\ colo_buffer'[s].st # "live"
    \/ ctl[s] = "open" /\ ctl'[s] # "open"
    \/ h'.free[s] # h.free[s]
    \/ h'.close[s] # h.close[s]

\* C5: failover_completed is a barrier for the loops' exit cleanup: a loop
\* clears failover_request, frees the checkpoint buffer and closes the control
\* channel only once failover_completed is true, and never while it is still
\* in its loop or in a transaction.
C5_Barrier ==
    [][\A s \in Side :
          Cleans(s) => (failover_completed[s] /\ ~LoopRunning(s)
                          /\ pc[s] \in {"wait_completed", "release"})]_vars

\* Both loops have drained behind the barrier and released what they held.
C5_Witness ==
    \A s \in Side :
       /\ pc[s] = "done"
       /\ failover_completed[s]
       /\ ~failover_request[s]
       /\ h.free[s] = 1
       /\ h.close[s] = 1

\* The part of a round in which a side's VM has to stay stopped.  Primary:
\* from the stop, through serialization and transfer, until LOADED has been
\* received.  Secondary: from SUSPENDED sent until LOADED sent.
StoppedPart(s) ==
    /\ proc[s] = "alive"
    /\ pc[s] \in IF s = P
                 THEN {"tx_chk2", "save", "put_send", "get_recv", "get_loaded"}
                 ELSE {"proxy_ckpt", "get_send", "get_size", "fill", "put_recv",
                       "load",
                       "put_loaded"}

\* C6, as stated: in every round the Primary VM is stopped before
\* serialization begins and started only after LOADED has been received; the
\* Secondary VM is stopped before SUSPENDED is sent and started only after
\* LOADED has been sent.
C6_RunStateAsStated ==
    \A s \in Side : StoppedPart(s) => runstate[s] # "RUNNING"

\* C6, amended: in that part of a round a side's VM is stopped, unless the
\* side's failover action has run and started it.
C6_RunState ==
    \A s \in Side :
       (StoppedPart(s) /\ runstate[s] = "RUNNING") =>
          (h.exec[s] >= 1 /\ failover_completed[s])

\* Second round, both VMs stopped: the Primary waits for LOADED, the
\* Secondary is about to send it; no failover anywhere.
C6_Witness ==
    /\ pc[P] = "get_loaded" /\ pc[S] = "put_loaded"
    /\ Rounds = 2
    /\ runstate[P] = "COLO" /\ runstate[S] = "COLO"
    /\ \A s \in Side : h.sched[s] = 0 /\ proc[s] = "alive"

\* C7: whenever vmstate_loading is true the Secondary's loading thread holds
\* the iothread lock; the flag changes only inside that locked region; and
\* the step of the Secondary's failover action (proxy failover, resume of the
\* incoming coroutine) is taken only with vmstate_loading false.
C7_LoadingLocked ==
    /\ [](vmstate_loading => (lock[S] = "worker" /\ pc[S] = "load"))
    /\ [][/\ vmstate_loading' # vmstate_loading =>
                (lock[S] = "worker" \/ lock'[S] = "worker")
          /\ (mpc[S] = "role" /\ mpc'[S] = "idle") =>
                (~vmstate_loading /\ ~vmstate_loading')]_vars

\* A failover is pending on the Secondary while it loads VM state under the
\* lock.
C7_Witness ==
    /\ vmstate_loading
    /\ lock[S] = "worker"
    /\ bhs[S] # {}
    /\ failover_request[S]

\* The Primary has received READY.
ReadyReceived == \E i \in 1 .. Len(got[P]) : got[P][i] = COLO_READY

\* C8, as stated: the status is COLO only once the Primary has received READY.
C8_ColoAfterReady == state = "COLO" => ReadyReceived

\* C8, amended: the status becomes COLO by the compare-and-set ACTIVE -> COLO
\* of colo_start_checkpointer, before the checkpoint thread runs and so before
\* READY; what waits for READY is the checkpoint loop.  The status leaves
\* COLO only from COLO: to COMPLETED by the compare-and-set of the Primary's
\* failover action, or to FAILED by the outside.
C8_StatusSteps ==
    /\ [](LoopRunning(P) => ReadyReceived)
    /\ [][state' # state =>
            \/ state = "ACTIVE" /\ state' = "COLO" /\ pc[P] = "start"
            \/ state = "COLO" /\ state' = "COMPLETED" /\ mpc[P] = "role"
            \/ state = "COLO" /\ state' = "FAILED" /\ mpc[P] = "idle"]_vars

\* The status has left COLO through the failover action's compare-and-set,
\* after a handshake that was completed.
C8_Witness ==
    /\ state = "COMPLETED"
    /\ ReadyReceived
    /\ h.exec[P] = 1

\* C9: a token other than the required one, received by the Primary, aborts
\* the transaction and sends the loop through its failure path and its
\* cleanup: the Primary does not end with its loop short of the end, its
\* control channel open or its checkpoint buffer unreleased.
C9_ViolationDrains ==
    proc[P] = "exited" =>
       (pc[P] = "done" /\ ctl[P] # "open" /\ colo_buffer[P].st # "live")

\* The Primary's loop has exited and its main thread has nothing pending.
PrimaryAtRest ==
    /\ proc[P] = "alive"
    /\ pc[P] = "done"
    /\ mpc[P] = "idle"
    /\ bhs[P] = {}

\* What C10 says of the Primary once its loop has exited: the status is
\* COMPLETED (FAILED if it was FAILED before the failover action ran), the VM
\* is running and the failover action has run and started it.
EndsCompleted ==
    PrimaryAtRest =>
       /\ state \in {"COMPLETED", "FAILED"}
       /\ runstate[P] = "RUNNING"
       /\ h.exec[P] >= 1
       /\ failover_completed[P]

\* C10: a failover request raised while a Primary transaction is between
\* SEND sent and RECEIVED received makes the Primary's loop exit (its process
\* does not end on the way there), with the status COMPLETED unless it was
\* FAILED, and with the VM running, started by the Primary's failover action.
C10_FailoverDuringTransfer ==
    h.recv[P] >= 1 => (proc[P] = "alive" /\ EndsCompleted)

\* A token t sent before position j of the wire.
SentBefore(t, j) == \E i \in 1 .. j - 1 : wire[i] = t

\* C11: GUEST_SHUTDOWN is sent at the tail of a successful round, right
\* after its LOADED and at most once for the round; the latch is clear once
\* the tail has run; the Secondary that received it has requested the
\* shutdown of its process; and after GUEST_SHUTDOWN the Primary sends no
\* CHECKPOINT_NEW and the Secondary no CHECKPOINT_SUSPENDED.
C11_GuestShutdown ==
    /\ \A j \in 1 .. Len(wire) :
          /\ wire[j] = COLO_GUEST_SHUTDOWN =>
                (j > 1 /\ wire[j - 1] = COLO_CHECKPOINT_LOADED)
          /\ wire[j] \in {COLO_CHECKPOINT_NEW, COLO_CHECKPOINT_SUSPENDED} =>
                ~SentBefore(COLO_GUEST_SHUTDOWN, j)
    /\ h.core[P] >= 1 /\ pc[P] # "resume" => ~colo_shutdown_requested
    /\ pc[S] = "parked" => h.core[S] = 1

\* The stream from the Primary holds, from position i on, the length word n
\* followed by exactly the bytes of d.
Framed(q, i, d) ==
    /\ Len(q) >= i + Len(d)
    /\ q[i] = U64(Len(d))
    /\ \A k \in 1 .. Len(d) : q[i + k] = Byte(d[k])

\* What the serializer writes in one round: the section bytes of
\* qemu_savevm_state_begin, then those of qemu_savevm_state_complete.
Serialized == {b \o c : b \in BeginData, c \in CompleteData}

\* C12: in a round that succeeds the bytes the Secondary has fed to its
\* loader are the bytes the Primary's serializer wrote into the checkpoint
\* buffer, in order and in full; the length word sent between
\* CHECKPOINT_SEND and the payload is the payload's length; and neither
\* buffer holds bytes of an earlier round.
C12_RoundTrip ==
    /\ pc[P] = "resume" =>
          /\ loaded = colo_buffer[P].data
          /\ loaded \in Serialized
          /\ colo_buffer[S].data = colo_buffer[P].data
          /\ total_size = Len(colo_buffer[P].data)
    /\ pc[S] = "put_loaded" /\ proc[S] = "alive" =>
          /\ loaded = colo_buffer[P].data
          /\ total_size = Len(loaded)
    /\ pc[P] \in {"get_recv", "get_loaded"} =>
          \A i \in 1 .. Len(chan[P]) :
             chan[P][i] = U64(COLO_CHECKPOINT_SEND) =>
                Framed(chan[P], i + 1, colo_buffer[P].data)

\* The second round has succeeded with a payload of one byte, the shortest
\* the serializer writes.
C12_Witness ==
    /\ pc[P] = "resume"
    /\ Rounds = 2
    /\ RoundsLoaded = 2
    /\ loaded = <<2>>

\* C13: two consecutive CHECKPOINT_NEW sends of the Primary are at least
\* CHECKPOINT_MIN_PERIOD (100 ms) apart, whatever the period is set to and
\* whatever colo_proxy_compare returns; and when it reported no divergence
\* (and the period was not changed meanwhile) the second is sent at most
\* period + 100 ms after the transaction of the first has ended.
C13_Pacing ==
    pace.prev >= 0 =>
       /\ pace.last - pace.prev >= CHECKPOINT_MIN_PERIOD
       /\ (~pace.div /\ ~pace.set) => pace.idle <= pace.period + PollSleep

\* The Primary's transaction between CHECKPOINT_NEW sent and the stop of the
\* VM: it waits for SUSPENDED, opens the buffer, tests the failover flag.
BeforeStop == proc[P] = "alive" /\ pc[P] \in {"get_susp", "bufopen", "stop_vm"}

\* The Primary's transaction between the stop of the VM and the end of the
\* payload copy that follows CHECKPOINT_SEND.
StopToCopy == proc[P] = "alive" /\ pc[P] \in {"tx_chk2", "save", "put_send"}

\* The Primary's loop waits for a checkpoint trigger.
TriggerWait == proc[P] = "alive" /\ pc[P] = "loop"

\* C14, as stated: the Primary VM is running wherever the loop waits for a
\* trigger, and stopped in every state from CHECKPOINT_NEW sent until
\* CHECKPOINT_SEND and the payload have been sent.
C14_PrimaryAsStated ==
    /\ TriggerWait => runstate[P] = "RUNNING"
    /\ (BeforeStop \/ StopToCopy) => runstate[P] # "RUNNING"

\* C14, amended: the Primary VM is running wherever the loop waits for a
\* trigger with no failover requested; it still runs after CHECKPOINT_NEW
\* while the transaction waits for SUSPENDED; it is stopped from
\* vm_stop_force_state until CHECKPOINT_SEND and the payload have been sent,
\* unless the Primary's failover action has run and started it.
C14_Primary ==
    /\ (TriggerWait /\ ~failover_request[P]) => runstate[P] = "RUNNING"
    /\ (BeforeStop /\ h.sched[P] = 0) => runstate[P] = "RUNNING"
    /\ (StopToCopy /\ runstate[P] = "RUNNING") =>
          (h.exec[P] >= 1 /\ failover_completed[P])

\* Second round, no failover: the VM is stopped and the Primary is about to
\* send CHECKPOINT_SEND and the payload.
C14_Witness ==
    /\ pc[P] = "put_send" /\ proc[P] = "alive"
    /\ Rounds = 2
    /\ runstate[P] = "COLO"
    /\ h.sched[P] = 0

\* The Secondary waits in colo_wait_handle_cmd for the next command.
CommandWait == proc[S] = "alive" /\ pc[S] = "wait_cmd"

\* The Secondary has received CHECKPOINT_NEW and has not stopped its VM yet.
NewReceived == proc[S] = "alive" /\ pc[S] = "stop_vm"

\* The Secondary's round between the stop of the VM and CHECKPOINT_LOADED
\* sent.
StopToLoaded ==
    /\ proc[S] = "alive"
    /\ pc[S] \in {"proxy_ckpt", "get_send", "get_size", "fill", "put_recv",
                 "load", "put_loaded"}

\* C15, as stated: the Secondary VM is running wherever the loop waits for
\* the next command, and stopped in every state from the receipt of
\* CHECKPOINT_NEW until CHECKPOINT_LOADED has been sent.
C15_SecondaryAsStated ==
    /\ CommandWait => runstate[S] = "RUNNING"
    /\ (NewReceived \/ StopToLoaded) => runstate[S] # "RUNNING"

\* C15, amended: the Secondary VM is running wherever the loop waits for the
\* next command with no failover requested; once CHECKPOINT_NEW is received
\* it runs on until the loop's vm_stop_force_state; from there until
\* CHECKPOINT_LOADED has been sent it is stopped, unless the Secondary's
\* failover action has run and started it.
C15_Secondary ==
    /\ (CommandWait /\ ~failover_request[S]) => runstate[S] = "RUNNING"
    /\ (NewReceived /\ h.sched[S] = 0) => runstate[S] = "RUNNING"
    /\ (StopToLoaded /\ runstate[S] = "RUNNING") =>
          (h.exec[S] >= 1 /\ failover_completed[S])

\* Second round, no failover: the Secondary loads the VM state with its VM
\* stopped.
C15_Witness ==
    /\ pc[S] = "load" /\ proc[S] = "alive"
    /\ Rounds = 2
    /\ runstate[S] = "COLO"
    /\ h.sched[S] = 0

\* READY is on the wire at most once, ahead of every other token of the
\* Secondary, and exactly once when the Secondary is in its loop.
ReadyOnce ==
    /\ Count(COLO_READY, wire) <= 1
    /\ SecondarySent # <<>> => Head(SecondarySent) = COLO_READY
    /\ LoopRunning(S) => Count(COLO_READY, wire) = 1

\* No checkpoint round without READY: the Primary has sent CHECKPOINT_NEW, or
\* is in its loop, only with READY received; the Secondary is in its loop
\* only with READY sent.
RoundsAfterReady ==
    /\ (Rounds >= 1 \/ LoopRunning(P)) => ReadyReceived
    /\ LoopRunning(S) => SentBefore(COLO_READY, Len(wire) + 1)

\* C16, as stated: READY is sent exactly once and first; the Primary's VM is
\* started and its first CHECKPOINT_NEW sent only after READY was received;
\* without READY no round is started.
C16_ReadyAsStated ==
    /\ ReadyOnce
    /\ RoundsAfterReady
    /\ runstate[P] = "RUNNING" => ReadyReceived

\* C16, amended: as above, but what waits for READY is the start of the VM by
\* the Primary's checkpoint thread; when READY cannot be received the thread
\* takes its failure path, whose failover action starts the VM without it.
C16_Ready ==
    /\ ReadyOnce
    /\ RoundsAfterReady
    /\ (runstate[P] = "RUNNING" /\ ~ReadyReceived) =>
          (h.exec[P] >= 1 /\ Rounds = 0 /\ ~LoopEntered(P))

\* The handshake is done and the Primary has sent its first CHECKPOINT_NEW
\* with its VM running.
C16_Witness ==
    /\ pc[P] = "get_susp" /\ proc[P] = "alive"
    /\ Rounds = 1
    /\ ReadyReceived
    /\ Count(COLO_READY, wire) = 1
    /\ runstate[P] = "RUNNING"
    /\ h.exec[P] = 0

\* C17: after a failover on the Secondary the halted incoming-migration
\* coroutine has been re-entered exactly once, however many failover
\* requests there were: never zero times, never twice.
C17_ResumeOnce ==
    /\ h.resume[S] <= 1
    /\ failover_completed[S] => h.resume[S] = 1

\* The Secondary's worker has passed the test of the failover flag at out
\* and found it set.
Draining == pc[S] \in {"wait_completed", "release", "done"}

\* C18: the Secondary's process is exited only by the second test of the
\* failover flag at out, with the flag not set, the proxy destroyed and
\* nothing released; once a test at out has found the flag set the process
\* is never ended, the flag is cleared only with failover_completed true, and
\* the worker returns with buffer, RAM cache and control channel released.
C18_Grace ==
    /\ proc[S] = "exited" =>
          /\ pc[S] = "recheck"
          /\ ~failover_request[S]
          /\ proxy[S] = "destroyed"
          /\ h.free[S] = 0 /\ h.close[S] = 0
    /\ Draining => proc[S] = "alive"
    /\ pc[S] \in {"release", "done"} => failover_completed[S]
    /\ pc[S] = "done" =>
          /\ colo_buffer[S].st # "live"
          /\ ramcache = "released"
          /\ ctl[S] # "open"

\* The Primary's worker is inside colo_do_checkpoint_transaction with the
\* write view open.
ViewInUse ==
    pc[P] \in {"stop_vm", "tx_chk2", "save", "put_send", "get_recv",
               "get_loaded", "resume"}

\* C19: colo_do_checkpoint_transaction returns success only if the round's
\* CHECKPOINT_LOADED was received, so the loop is at its trigger wait, or
\* about to start a transaction, only with every CHECKPOINT_NEW answered by
\* a LOADED; a failed step is followed by no further transaction; and the
\* buffer view is open only inside a transaction.
C19_TxResult ==
    /\ (proc[P] = "alive" /\ pc[P] \in {"loop", "put_new"}) =>
          Rounds = RoundsLoaded
    /\ Rounds <= RoundsLoaded + 1
    /\ ~ViewInUse => view[P] # "open"

\* The Primary's worker has left its loop.
PrimaryLeft == pc[P] \in {"out", "wait_completed", "release", "done"}

\* This step aborts the Primary's transaction with failure: the loop is
\* left, ret is negative, nothing has been serialized and nothing is sent.
AbortsUnsaved ==
    /\ pc'[P] = "out"
    /\ ret' < 0
    /\ colo_buffer'[P].data = <<>>
    /\ wire' = wire
    /\ chan'[P] = chan[P]
    /\ view'[P] # "open"

\* C20: the transaction tests failover_request right before the stop of the
\* VM (the view being open) and right after it; a flag found set at either
\* test aborts the transaction with failure before anything is serialized,
\* and after that abort the Primary sends nothing more: no CHECKPOINT_SEND
\* and no payload in that round.
C20_FailoverChecks ==
    [][/\ (pc[P] = "bufopen" /\ pc'[P] # "bufopen" /\ view'[P] # "null"
             /\ failover_request[P]) => AbortsUnsaved
       /\ (pc[P] = "tx_chk2" /\ pc'[P] # "tx_chk2" /\ failover_request[P])
             => AbortsUnsaved
       /\ PrimaryLeft =>
             /\ PrimaryLeft'
             /\ PrimarySent' = PrimarySent
             /\ Len(chan'[P]) <= Len(chan[P])]_vars

\* A request whose bottom half ran the failover action before the
\* transaction stopped the VM: the test after the stop has aborted the
\* round, nothing serialized, no CHECKPOINT_SEND for its CHECKPOINT_NEW.
C20_Witness ==
    /\ pc[P] = "out" /\ proc[P] = "alive"
    /\ ret < 0
    /\ runstate[P] = "COLO"
    /\ failover_completed[P] /\ failover_request[P]
    /\ colo_buffer[P].data = <<>>
    /\ got[P][Len(got[P])] = COLO_CHECKPOINT_SUSPENDED
    /\ Count(COLO_CHECKPOINT_SEND, wire) < Rounds

\* The worker of side s takes a step.
WorkerSteps(s) == pc'[s] # pc[s]

\* C21: the checkpoint worker of a side holds the iothread lock across steps
\* only while the Secondary loads VM state; it holds it at no put or get, at
\* no payload transfer, at no sleep and at no wait for failover_completed;
\* the step it takes with the lock held touches neither channel and gives
\* the lock back, whether the load succeeds or fails; and the
\* GUEST_SHUTDOWN path parks with the lock free.
C21_LockDiscipline ==
    /\ [](\A s \in Side :
            lock[s] = "worker" => (s = S /\ pc[S] = "load" /\ proc[S] = "alive"))
    /\ [][\A s \in Side :
            (WorkerSteps(s) /\ lock[s] = "worker") =>
               (chan' = chan /\ wire' = wire /\ lock'[s] = "free")]_vars

\* The load has failed under the lock: the Secondary is on its way out with
\* the read view still open, the lock is free again and a scheduled failover
\* bottom half can run.
C21_Witness ==
    /\ pc[S] = "out" /\ proc[S] = "alive"
    /\ view[S] = "open"
    /\ loaded = colo_buffer[S].data /\ loaded # <<>>
    /\ wire[Len(wire)] = COLO_CHECKPOINT_RECEIVED
    /\ lock[S] = "free"
    /\ bhs[S] # {}
    /\ mpc[S] = "idle"

\* The Secondary is about to notify its network proxy of the checkpoint
\* (colo_proxy_checkpoint has not been called yet in this round).
ProxyCheckpointDue == proc[S] = "alive" /\ pc[S] = "proxy_ckpt"

\* The rounds the Secondary has answered with CHECKPOINT_SUSPENDED, and the
\* rounds it was asked to start.
SuspendedSent == Count(COLO_CHECKPOINT_SUSPENDED, wire)
NewSeen == Count(COLO_CHECKPOINT_NEW, got[S])

\* C22: in every Secondary round the network proxy is notified of the
\* checkpoint after the VM has been stopped and before CHECKPOINT_SUSPENDED
\* is sent: when the notification is due, the round's CHECKPOINT_SUSPENDED
\* is not on the wire yet, so that a failing notification leaves it unsent.
C22_ProxyCheckpoint == ProxyCheckpointDue => SuspendedSent < NewSeen

\* The request flag of side s goes from set to clear in this step.
RequestCleared(s) == failover_request[s] /\ ~failover_request'[s]

\* C24: failover_completed is monotonic.  Once a failover action has
\* completed on a side, failover_completed is true there in every later
\* state, whatever failover_requested is; no step sets it back to false; and
\* the request is cleared by the draining loop only, which leaves
\* failover_completed true.
C24_Monotonic ==
    /\ [](\A s \in Side : h.edge[s] >= 1 => failover_completed[s])
    /\ [][\A s \in Side :
            /\ failover_completed[s] => failover_completed'[s]
            /\ RequestCleared(s) =>
                  /\ pc[s] = "wait_completed" /\ pc'[s] = "release"
                  /\ failover_completed[s] /\ failover_completed'[s]]_vars

\* The Secondary has drained: the failover completed once, the request is
\* cleared again, and the worker is past the clear with its resources still
\* to be released.
C24_Witness ==
    /\ proc[S] = "alive" /\ pc[S] = "release"
    /\ h.edge[S] = 1
    /\ failover_completed[S]
    /\ ~failover_request[S]
    /\ Rounds >= 1

\* A round is open: CHECKPOINT_NEW was sent for it and the Primary has not
\* yet come back from its transaction.
RoundOpen == Rounds > RoundsLoaded \/ (proc[P] = "alive" /\ pc[P] = "resume")

\* Every round that was started has completed on both sides: the Primary is
\* back at its trigger wait and the Secondary at colo_wait_handle_cmd, both
\* VMs run and the iothread locks are free.
RoundClosed ==
    /\ Rounds = RoundsLoaded
    /\ proc[P] = "alive" /\ pc[P] = "loop"
    /\ proc[S] = "alive" /\ pc[S] = "wait_cmd"
    /\ runstate[P] = "RUNNING" /\ runstate[S] = "RUNNING"
    /\ lock[P] = "free" /\ lock[S] = "free"

\* C23: in the undisturbed session the two loops never deadlock: every round
\* the Primary starts by sending CHECKPOINT_NEW eventually completes on both
\* sides.
C23_Progress == RoundOpen ~> RoundClosed

====
